---- MODULE Spec2Model ----
\* A model of SearchEngineIndexer (search_engine_indexer.py): one facade object
\* talking to one full-text backend (Solr, Elasticsearch or OpenSearch) either
\* through a typed client handle or through hand-built HTTP requests, plus the
\* pure snippet-centering function get_centered_fragment, the ingestion of a
\* data directory (process_file, process_and_index_files), the logical query
\* string of complex_query_highlight_solr, and the class-level timing registry
\* as several facade instances write it.
EXTENDS Integers, Sequences, FiniteSets, TLC

\* ------------------------------------------------------------------ bounds
\* Document ids are 1..MaxDocId.
MaxDocId == 1
\* At most MaxAuto documents with a backend-generated _id are kept per id.
MaxAuto == 2
\* Wall-clock durations of a call are 0, 4, .., 4 * MaxElapsed milliseconds.
MaxElapsed == 2
\* Strings handed to get_centered_fragment: content, phrase, size ranges.
MaxContentLen == 4
MaxPhraseLen == 2
MaxSize == 5
\* close_connections is called at most MaxClose times.
MaxClose == 2
\* complex_query_highlight_solr is handed at most MaxTerms additional terms.
MaxTerms == 2
\* Facade instances living in one process are 1..MaxInstances.
MaxInstances == 2
\* The text of a file has at most MaxTextLen characters.
MaxTextLen == 2
\* A proximity distance is in 0..MaxSlop.
MaxSlop == 1

\* ------------------------------------------------------------- constants
SEARCH_ENGINE_SL == "SOLR"
SEARCH_ENGINE_ES == "ES"
SEARCH_ENGINE_OS == "OS"
SEARCH_ENGINE_DEFAULT == SEARCH_ENGINE_ES

\* Python's None, for the string-valued fields (search_engine argument, client).
None == "None"

DocIds == 1..MaxDocId
Elapsed == {4 * t : t \in 0..MaxElapsed}
Alphabet == {"a", "b"}

\* What the backend does with one request:
\*   ok       the request is served and answered in the documented shape
\*   error    the backend answers with a non-success HTTP status (4xx/5xx)
\*   garbled  the request is served, the answer's body cannot be parsed
\*   down     the backend cannot be reached (connection error)
Responses == {"ok", "error", "garbled", "down"}

\* The constructor's search_engine argument and its hosts argument:
\*   hosts "none" is None, "blank" is a list whose first host is an empty
\*   string, "bad" is a value the client library's constructor rejects,
\*   "url" is a list of well-formed URLs.
EngineArgs == {SEARCH_ENGINE_SL, SEARCH_ENGINE_ES, SEARCH_ENGINE_OS, None, "XX"}
HostArgs == {"none", "blank", "bad", "url"}

\* A payload as process_file returns it: a record, or None (present = FALSE).
\* index_files is handed either; the index operations called on their own are
\* handed documents.
NonePayload == [present |-> FALSE, id |-> 0]
Documents == {[present |-> TRUE, id |-> i] : i \in DocIds}
Payloads == {NonePayload} \cup Documents

VARIABLES
  pc,            \* "class": no instance yet; "ready": constructed; "raised": __init__ raised
  search_engine, \* self.search_engine
  hosts,         \* self.hosts
  client,        \* self.client: None or "Client"
  health,        \* the health check __init__ ran: "unchecked", "ok" or "failed"
  closed,        \* number of close() calls made on the client handle
  index,         \* the backend's index: per document id, whether a document is
                 \* stored under _id = id (keyed) and how many under generated _ids (auto)
  time_records,  \* SearchEngineIndexer.time_records: name -> formatted duration
  last,          \* what the most recent call did and gave back to its caller
  content, size, phrase, fragment, cpc, \* a get_centered_fragment call
  returned,      \* what the caller's most recent process_file call gave back
  earlier,       \* what its process_file call before that one gave back
  entries,       \* the data directory: per entry name, what is on disk
  scan,          \* what the most recent process_and_index_files call did per entry
  complex_query, \* the arguments and the query_string of the most recent
                 \* complex_query_highlight_solr call
  own_records,   \* per facade instance: its own time_records attribute, if it has one
  pending,       \* per facade instance: the log_time_records call it is in
  last_write,    \* the most recent store into a timing registry
  writer,        \* per recorded name: the instance that stored the entry
  body,          \* the dictionary the caller got from process_file and hands on
  sent,          \* the body an index operation last handed to the backend
  request        \* the query_body a highlight operation last handed to the backend

vars == <<pc, search_engine, hosts, client, health, closed, index, time_records, last,
          content, size, phrase, fragment, cpc, returned, earlier, entries, scan,
          complex_query, own_records, pending, last_write, writer,
          body, sent, request>>
centerVars == <<content, size, phrase, fragment, cpc>>
ingestVars == <<returned, earlier, entries, scan>>
registryVars == <<own_records, pending, last_write, writer>>
bodyVars == <<body, sent, request>>

\* ------------------------------------------------------- return values
RetNone == [kind |-> "None", n |-> 0]
RetHits(n) == [kind |-> "hits", n |-> n]
RetCount(n) == [kind |-> "count", n |-> n]
RetStatus(n) == [kind |-> "status", n |-> n]

\* The record of one call: the operation, the transport branch taken ("client",
\* "http", or "none" when the call ended before the branch), the backend's
\* behaviour, the number of HTTP requests the call handed to the requests
\* library and of calls it made on the client handle, the branch its outcome
\* check took ("success", "failure" or "none" when it has none), the value
\* returned, and whether the call raised to its caller.
Call(op, path, resp, http, calls, cls, ret, raised) ==
  [entry |-> op, op |-> op, path |-> path, resp |-> resp, http |-> http,
   calls |-> calls, cls |-> cls, ret |-> ret, raised |-> raised, created |-> FALSE]

NoCall == Call("none", "none", "ok", 0, 0, "none", RetNone, FALSE)

\* The call record of an index operation; created: the backend answered ok and
\* stored the document as a new one (HTTP 201 Created, result "created").
Indexed(call, created) == [call EXCEPT !.created = created]

\* What an operation leaves behind: the backend's index, the timing registry
\* and the record of the call.
Eff(ix, tr, call) == [index |-> ix, time_records |-> tr, call |-> call]

\* ------------------------------------------------------- timing registry
\* f"{execution_time:.2f}s": seconds with two decimals, here <<seconds, hundredths>>
\* of a duration given in milliseconds.
execution_time_str(ms) ==
  LET c == (ms + 5) \div 10 IN <<c \div 100, c % 100>>

\* An item assignment that keeps the entry a name already has.
setitem_if_absent(records, method_name, value) ==
  [n \in DOMAIN records \cup {method_name} |->
     IF n \in DOMAIN records THEN records[n] ELSE value]

\* records[method_name] = value on a dictionary
setitem(records, method_name, value) ==
  [n \in DOMAIN records \cup {method_name} |->
     IF n = method_name THEN value ELSE records[n]]

\* log_time_records(method_name, start_time, end_time) on the dictionary
\* self.time_records names, end_time - start_time being ms milliseconds
log_time_records(records, method_name, ms) ==
  setitem(records, method_name, execution_time_str(ms))

\* The facade instances of one process. time_records is an attribute of the
\* class; self.time_records reads the instance's own attribute of that name
\* when it has one and the class attribute otherwise.
Instances == 1..MaxInstances
NoOwn == [present |-> FALSE, records |-> << >>]
self_time_records(own, class_records) ==
  IF own.present THEN own.records ELSE class_records

\* A store that binds the updated dictionary to the instance:
\* self.time_records = {**self.time_records, method_name: value}
store_in_own_attribute(own, class_records, method_name, value) ==
  [own |-> [present |-> TRUE,
            records |-> setitem(self_time_records(own, class_records), method_name, value)],
   class_records |-> class_records]

\* self.time_records[method_name] = value: an item assignment on the
\* dictionary self.time_records names, which binds no attribute
store_time_record(own, class_records, method_name, value) ==
  IF own.present
  THEN [own |-> [own EXCEPT !.records = setitem(@, method_name, value)],
        class_records |-> class_records]
  ELSE [own |-> own, class_records |-> setitem(class_records, method_name, value)]

\* The names the test functions record under: each constructs its own facade
\* and runs one highlight operation.
RecordedNames == {"highlight_solr", "highlight_opensearch"}

NotRecording == [busy |-> FALSE, name |-> "none", value |-> <<0, 0>>]
NoWrite == [stored |-> FALSE, name |-> "none", value |-> <<0, 0>>, by |-> 0,
            replaced |-> FALSE, old_value |-> <<0, 0>>, old_by |-> 0]

\* Instance i enters log_time_records(method_name, start_time, end_time) and
\* formats the duration; other threads may run before it stores.
log_time_records_format(i, method_name, ms) ==
  /\ ~pending[i].busy
  /\ pending' = [pending EXCEPT
                   ![i] = [busy |-> TRUE, name |-> method_name,
                           value |-> execution_time_str(ms)]]
  /\ UNCHANGED <<pc, search_engine, hosts, client, health, closed, index,
                 time_records, last, centerVars, ingestVars, complex_query,
                 own_records, last_write, writer, bodyVars>>

\* Instance i stores the formatted duration and leaves log_time_records.
log_time_records_store(i) ==
  /\ pending[i].busy
  /\ LET name == pending[i].name
         value == pending[i].value
         read == self_time_records(own_records[i], time_records)
         stored == store_time_record(own_records[i], time_records, name, value)
     IN /\ own_records' = [own_records EXCEPT ![i] = stored.own]
        /\ time_records' = stored.class_records
        /\ last_write' = [stored |-> TRUE, name |-> name, value |-> value, by |-> i,
                          replaced |-> name \in DOMAIN read,
                          old_value |-> IF name \in DOMAIN read THEN read[name]
                                        ELSE <<0, 0>>,
                          old_by |-> IF name \in DOMAIN writer THEN writer[name] ELSE 0]
        /\ writer' = [n \in DOMAIN writer \cup {name} |->
                        IF n = name THEN i ELSE writer[n]]
  /\ pending' = [pending EXCEPT ![i] = NotRecording]
  /\ UNCHANGED <<pc, search_engine, hosts, client, health, closed, index, last,
                 centerVars, ingestVars, complex_query, bodyVars>>

\* ------------------------------------------------------- backend index
EmptyIndex == [i \in DocIds |-> [keyed |-> FALSE, auto |-> 0]]

\* Number of documents in the index.
Total(ix) ==
  LET RECURSIVE Sum(_)
      Sum(S) == IF S = {} THEN 0
                ELSE LET i == CHOOSE x \in S : TRUE
                     IN (IF ix[i].keyed THEN 1 ELSE 0) + ix[i].auto + Sum(S \ {i})
  IN Sum(DocIds)

\* PUT /index/_doc/{id}, Solr add: create or overwrite the document keyed by id.
PutKeyed(ix, id) == [ix EXCEPT ![id].keyed = TRUE]
\* POST /index/_doc without an id: the backend generates a fresh _id.
PutAuto(ix, id) == [ix EXCEPT ![id].auto = @ + 1]
\* The backend served the request (its answer may still be unreadable).
Served(resp) == resp \in {"ok", "garbled"}
\* HTTP status of a served PUT /index/_doc/{id}: 201 Created for a new
\* document, 200 OK for an overwrite.
PutStatus(ix, id) == IF ix[id].keyed THEN 200 ELSE 201

\* ------------------------------------------------------------ constructor
\* __init__ runs a health check: SOLR pings whenever solr_host is truthy, ES
\* asks for the cluster health whenever Elasticsearch(...) gave a client.
HealthChecked(engineArg, hostArg) ==
  \/ engineArg = SEARCH_ENGINE_SL /\ hostArg \in {"bad", "url"}
  \/ engineArg = SEARCH_ENGINE_ES /\ hostArg # "bad"

HealthOk(hostArg, resp) == hostArg # "bad" /\ resp = "ok"

\* A constructor that branches on the defaulted selector: no selector is ES.
client_for_defaulted_selector(engineArg, hostArg, resp) ==
  IF engineArg \in {None, SEARCH_ENGINE_ES, SEARCH_ENGINE_OS}
  THEN IF hostArg = "bad" THEN None ELSE "Client"
  ELSE None

\* The client handle self.client holds when __init__ is over, or "raise" when
\* __init__ raises.
InitClient(engineArg, hostArg, resp) ==
  IF engineArg = SEARCH_ENGINE_SL THEN
    \* solr_host = hosts[0]: TypeError on None
    IF hostArg = "none" THEN "raise"
    ELSE IF hostArg = "blank" THEN None
    \* self.client = pysolr.Solr(...); self.client.ping() is outside any try
    ELSE IF ~HealthOk(hostArg, resp) THEN "raise"
    ELSE "Client"
  ELSE IF engineArg = SEARCH_ENGINE_ES THEN
    \* Elasticsearch(hosts, ...) raising leaves the class attribute None; a
    \* health check that raises is caught after self.client was assigned
    IF hostArg = "bad" THEN None ELSE "Client"
  ELSE IF engineArg = SEARCH_ENGINE_OS THEN
    IF hostArg = "bad" THEN None ELSE "Client"
  ELSE None

\* SearchEngineIndexer(search_engine, hosts, index_name)
Construct(engineArg, hostArg, resp) ==
  /\ pc = "class"
  /\ search_engine' = IF engineArg = None THEN SEARCH_ENGINE_DEFAULT ELSE engineArg
  /\ hosts' = hostArg
  /\ LET c == InitClient(engineArg, hostArg, resp)
         checked == HealthChecked(engineArg, hostArg)
     IN
       /\ client' = IF c = "raise" THEN None ELSE c
       /\ pc' = IF c = "raise" THEN "raised" ELSE "ready"
       /\ health' = IF ~checked THEN "unchecked"
                    ELSE IF HealthOk(hostArg, resp) THEN "ok" ELSE "failed"
       /\ last' = Call("__init__", "none", resp, 0, IF checked THEN 1 ELSE 0,
                       IF ~checked THEN "none"
                       ELSE IF HealthOk(hostArg, resp) THEN "success" ELSE "failure",
                       RetNone, c = "raise")
  /\ UNCHANGED <<closed, index, time_records, centerVars, ingestVars, complex_query, registryVars, bodyVars>>

\* requests refuses a URL built from a hosts[0] that is not a URL
\* (MissingSchema), before anything is sent.
HostUrlOk == hosts = "url"

\* ------------------------------------------------------------------ index
\* index_with_solr(payload): the whole body is inside one try.
index_with_solr_body(cl, ix, tr, payload, resp) ==
  IF ~payload.present THEN
    \* payload["content"] on None: TypeError, caught by the outer except
    Eff(ix, tr, Call("index_with_solr", "none", resp, 0, 0, "failure", RetNone, FALSE))
  ELSE IF cl # None THEN
    \* solr_client.add([payload]); solr_client.commit() in an inner try
    Eff(IF Served(resp) THEN PutKeyed(ix, payload.id) ELSE ix, tr,
        Indexed(Call("index_with_solr", "client", resp, 0, IF resp = "ok" THEN 2 ELSE 1,
                     IF resp = "ok" THEN "none" ELSE "failure", RetNone, FALSE),
                resp = "ok" /\ ~ix[payload.id].keyed))
  ELSE IF ~HostUrlOk THEN
    Eff(ix, tr, Call("index_with_solr", "http", resp, 0, 0, "failure", RetNone, FALSE))
  ELSE IF resp = "down" THEN
    Eff(ix, tr, Call("index_with_solr", "http", resp, 1, 0, "failure", RetNone, FALSE))
  ELSE
    \* requests.post(.../update/json/docs), requests.get(.../update?commit=true)
    Eff(IF Served(resp) THEN PutKeyed(ix, payload.id) ELSE ix, tr,
        Indexed(Call("index_with_solr", "http", resp, 2, 0,
                     IF Served(resp) THEN "success" ELSE "failure", RetNone, FALSE),
                resp = "ok" /\ ~ix[payload.id].keyed))

\* The status index_with_elasticsearch takes for success on its requests path.
ElasticsearchPutOk == 201

\* index_with_elasticsearch(payload)
index_with_elasticsearch_body(cl, ix, tr, payload, resp, ms) ==
  IF ~payload.present THEN
    \* text_content = payload["content"] is outside any try
    Eff(ix, tr, Call("index_with_elasticsearch", "none", resp, 0, 0, "none", RetNone, TRUE))
  ELSE IF cl # None THEN
    \* self.client.index(index=self.index_name, body=payload, refresh=True):
    \* no id is passed, the backend stores a new document under a fresh _id
    Eff(IF Served(resp) THEN PutAuto(ix, payload.id) ELSE ix,
        log_time_records(tr, "index_with_elasticsearch", ms),
        Indexed(Call("index_with_elasticsearch", "client", resp, 0, 1,
                     IF resp = "ok" THEN "success" ELSE "failure", RetNone, FALSE),
                resp = "ok"))
  ELSE
    \* requests.put(f"{base_url}/{index_name}/_doc/{doc_id}?refresh=true")
    Eff(IF Served(resp) THEN PutKeyed(ix, payload.id) ELSE ix,
        log_time_records(tr, "index_with_elasticsearch", ms),
        Indexed(Call("index_with_elasticsearch", "http", resp, 1, 0,
                     IF Served(resp) /\ PutStatus(ix, payload.id) = ElasticsearchPutOk
                     THEN "success" ELSE "failure", RetNone, FALSE),
                resp = "ok" /\ ~ix[payload.id].keyed))

\* The status index_with_opensearch takes for success on its requests path.
OpenSearchPutOk == 200

\* index_with_opensearch(payload)
index_with_opensearch_body(cl, ix, tr, payload, resp) ==
  IF ~payload.present THEN
    Eff(ix, tr, Call("index_with_opensearch", "none", resp, 0, 0, "none", RetNone, TRUE))
  ELSE IF cl # None THEN
    \* self.client.index(self.index_name, id=doc_id, body=payload, refresh=True)
    Eff(IF Served(resp) THEN PutKeyed(ix, payload.id) ELSE ix, tr,
        Indexed(Call("index_with_opensearch", "client", resp, 0, 1,
                     IF resp = "ok" /\ ~ix[payload.id].keyed THEN "success" ELSE "failure",
                     RetNone, FALSE),
                resp = "ok" /\ ~ix[payload.id].keyed))
  ELSE IF resp = "down" THEN
    \* requests.put(...) is outside any try
    Eff(ix, tr, Call("index_with_opensearch", "http", resp, 1, 0, "none", RetNone, TRUE))
  ELSE
    Eff(IF Served(resp) THEN PutKeyed(ix, payload.id) ELSE ix, tr,
        Indexed(Call("index_with_opensearch", "http", resp, 1, 0,
                     IF Served(resp) /\ PutStatus(ix, payload.id) = OpenSearchPutOk
                     THEN "success" ELSE "failure", RetNone, FALSE),
                resp = "ok" /\ ~ix[payload.id].keyed))

\* The state an operation leaves.
Apply(e) ==
  /\ index' = e.index
  /\ time_records' = e.time_records
  /\ last' = e.call
  /\ UNCHANGED <<pc, search_engine, hosts, client, health, closed, centerVars, ingestVars, complex_query, registryVars, bodyVars>>

Ready(engine) == pc = "ready" /\ search_engine = engine

\* The index holds at most MaxAuto documents with generated ids per id.
Room(payload) == payload.present => index[payload.id].auto < MaxAuto

index_with_solr(payload, resp) ==
  /\ Ready(SEARCH_ENGINE_SL)
  /\ Apply(index_with_solr_body(client, index, time_records, payload, resp))

index_with_elasticsearch(payload, resp, ms) ==
  /\ Ready(SEARCH_ENGINE_ES) /\ Room(payload)
  /\ Apply(index_with_elasticsearch_body(client, index, time_records, payload, resp, ms))

index_with_opensearch(payload, resp) ==
  /\ Ready(SEARCH_ENGINE_OS)
  /\ Apply(index_with_opensearch_body(client, index, time_records, payload, resp))

\* An index_files that hands every selector it does not know to Elasticsearch.
index_files_defaulting(cl, ix, tr, payload, resp, ms) ==
  LET e == IF search_engine = SEARCH_ENGINE_SL
             THEN index_with_solr_body(cl, ix, tr, payload, resp)
           ELSE IF search_engine = SEARCH_ENGINE_OS
             THEN index_with_opensearch_body(cl, ix, tr, payload, resp)
           ELSE index_with_elasticsearch_body(cl, ix, tr, payload, resp, ms)
  IN [e EXCEPT !.call.entry = "index_files", !.call.raised = FALSE,
               !.call.cls = IF e.call.raised THEN "failure" ELSE @]

\* An index_files without its try: what the index operation raises goes on
\* to the caller.
index_files_without_try(cl, ix, tr, payload, resp, ms) ==
  LET e == IF search_engine = SEARCH_ENGINE_SL
             THEN index_with_solr_body(cl, ix, tr, payload, resp)
           ELSE IF search_engine = SEARCH_ENGINE_ES
             THEN index_with_elasticsearch_body(cl, ix, tr, payload, resp, ms)
           ELSE IF search_engine = SEARCH_ENGINE_OS
             THEN index_with_opensearch_body(cl, ix, tr, payload, resp)
           ELSE Eff(ix, tr, Call("none", "none", resp, 0, 0, "failure", RetNone, FALSE))
  IN [e EXCEPT !.call.entry = "index_files"]

\* index_files(payload): dispatch on self.search_engine inside a try that
\* swallows whatever the index operation raises.
index_files_body(cl, ix, tr, payload, resp, ms) ==
  LET e == IF search_engine = SEARCH_ENGINE_SL
             THEN index_with_solr_body(cl, ix, tr, payload, resp)
           ELSE IF search_engine = SEARCH_ENGINE_ES
             THEN index_with_elasticsearch_body(cl, ix, tr, payload, resp, ms)
           ELSE IF search_engine = SEARCH_ENGINE_OS
             THEN index_with_opensearch_body(cl, ix, tr, payload, resp)
           ELSE Eff(ix, tr, Call("none", "none", resp, 0, 0, "failure", RetNone, FALSE))
  IN [e EXCEPT !.call.entry = "index_files", !.call.raised = FALSE,
               !.call.cls = IF e.call.raised THEN "failure" ELSE @]

index_files(payload, resp, ms) ==
  /\ pc = "ready"
  /\ search_engine = SEARCH_ENGINE_ES => Room(payload)
  /\ Apply(index_files_body(client, index, time_records, payload, resp, ms))

\* --------------------------------------------------------------- document
\* The text of a file: letters, line breaks and bullets ("*" stands for the
\* character U+2022).
LineBreak == "\n"
Bullet == "*"
TextAlphabet == {"a", LineBreak, Bullet}
Texts == UNION {[1..k -> TextAlphabet] : k \in 0..MaxTextLen}

\* s.replace(old, new) for a non-empty old
RECURSIVE str_replace(_, _, _)
str_replace(s, old, new) ==
  IF Len(s) < Len(old) THEN s
  ELSE IF SubSeq(s, 1, Len(old)) = old
    THEN new \o str_replace(SubSeq(s, Len(old) + 1, Len(s)), old, new)
  ELSE <<s[1]>> \o str_replace(Tail(s), old, new)

\* remove_breaks(text) of querido_diario_toolbox, taken to delete line breaks
remove_breaks(text) == str_replace(text, <<LineBreak>>, << >>)

\* The value under a key of the dictionary: a string, None, or no such key.
StrValue(text) == [kind |-> "str", text |-> text]
NoneValue == [kind |-> "None", text |-> << >>]
MissingKey == [kind |-> "missing", text |-> << >>]

\* body = {"id": doc_id, "content": content}
Body(id, text) ==
  [built |-> TRUE, id |-> id, content |-> StrValue(text),
   content_en |-> MissingKey, content_br |-> MissingKey]
NoDocument ==
  [built |-> FALSE, id |-> 0, content |-> MissingKey,
   content_en |-> MissingKey, content_br |-> MissingKey]
NothingSent == [made |-> FALSE, body |-> NoDocument, before |-> NoDocument]

\* The text an index operation stores: remove_breaks(payload["content"]) for
\* Solr, text_content.replace("\n*", "") for Elasticsearch and OpenSearch.
clean_content(engine, text) ==
  IF engine = SEARCH_ENGINE_SL THEN remove_breaks(text)
  ELSE str_replace(text, <<LineBreak, Bullet>>, << >>)

\* An index operation that fills the two fields and keeps the content.
set_language_fields_keeping_content(engine, doc) ==
  IF engine \notin {SEARCH_ENGINE_SL, SEARCH_ENGINE_ES, SEARCH_ENGINE_OS} THEN doc
  ELSE IF doc.content.kind # "str" THEN doc
  ELSE [doc EXCEPT !.content_en = StrValue(clean_content(engine, doc.content.text)),
                   !.content_br = StrValue(clean_content(engine, doc.content.text))]

\* payload["content_en"] = ...; payload["content_br"] = ...;
\* payload["content"] = None: the assignments the index operations make on
\* the dictionary they are handed. Reading the text of a dictionary whose
\* content is None raises before any assignment.
set_language_fields(engine, doc) ==
  IF engine \notin {SEARCH_ENGINE_SL, SEARCH_ENGINE_ES, SEARCH_ENGINE_OS} THEN doc
  ELSE IF doc.content.kind # "str" THEN doc
  ELSE [doc EXCEPT !.content_en = StrValue(clean_content(engine, doc.content.text)),
                   !.content_br = StrValue(clean_content(engine, doc.content.text)),
                   !.content = NoneValue]

\* The caller gets a dictionary from process_file for a file of some text.
build_document(id, text) ==
  /\ pc = "ready"
  /\ ~body.built
  /\ body' = Body(id, text)
  /\ UNCHANGED <<pc, search_engine, hosts, client, health, closed, index,
                 time_records, last, centerVars, ingestVars, complex_query,
                 registryVars, sent, request>>

\* self.index_files(body) on the dictionary the caller holds. A dictionary
\* whose content is None makes text_content.replace raise before anything is
\* sent, as a None payload does; what remove_breaks makes of None is outside
\* this source, so the Solr operation is given a text.
index_body(resp, ms) ==
  /\ pc = "ready"
  /\ body.built
  /\ body.content.kind = "str" \/ search_engine # SEARCH_ENGINE_SL
  /\ LET payload == IF body.content.kind = "str"
                    THEN [present |-> TRUE, id |-> body.id]
                    ELSE NonePayload
         e == index_files_body(client, index, time_records, payload, resp, ms)
         prepared == set_language_fields(search_engine, body)
     IN /\ search_engine = SEARCH_ENGINE_ES => Room(payload)
        /\ index' = e.index
        /\ time_records' = e.time_records
        /\ last' = e.call
        /\ body' = prepared
        /\ sent' = IF e.call.http + e.call.calls > 0
                   THEN [made |-> TRUE, body |-> prepared, before |-> body]
                   ELSE sent
  /\ UNCHANGED <<pc, search_engine, hosts, client, health, closed, centerVars,
                 ingestVars, complex_query, registryVars, request>>

\* ------------------------------------------------------------------ query
\* A query phrase either occurs in the text of every indexed document
\* ("match") or in none ("nomatch"). The text is stored in content_en and
\* content_br; the index operations set the content field to null, so a
\* search restricted to the content field finds nothing, and a search over
\* all fields ("*") finds every document when the phrase matches.
Queries == {"match", "nomatch"}

Hits(ix, field, q) ==
  IF field = "content" \/ q = "nomatch" THEN 0 ELSE Total(ix)

\* query_with_solr(query_str): query = content:"query_str" on both branches.
query_with_solr_body(cl, ix, tr, q, resp) ==
  IF cl # None THEN
    \* solr_client.search(query) is outside any try
    IF resp # "ok" THEN
      Eff(ix, tr, Call("query_with_solr", "client", resp, 0, 1, "none", RetNone, TRUE))
    ELSE
      Eff(ix, tr, Call("query_with_solr", "client", resp, 0, 1,
                       IF Hits(ix, "content", q) > 0 THEN "success" ELSE "failure",
                       RetNone, FALSE))
  ELSE IF ~HostUrlOk THEN
    Eff(ix, tr, Call("query_with_solr", "http", resp, 0, 0, "none", RetNone, TRUE))
  ELSE
    \* requests.get; response.json(); json_response["response"]["docs"]
    Eff(ix, tr, Call("query_with_solr", "http", resp, 1, 0, "none", RetNone, resp # "ok"))

\* query_with_elasticsearch(query_string)
query_with_elasticsearch_body(cl, ix, tr, q, resp) ==
  IF cl # None THEN
    \* es.search(index, body={"query": {"match_phrase": {"content": ...}}})
    Eff(ix, tr, Call("query_with_elasticsearch", "client", resp, 0, 1, "none",
                     RetNone, resp # "ok"))
  ELSE IF resp = "ok" THEN
    \* {"query": {"query_string": {"query": ...}}} over all fields; return hits
    Eff(ix, tr, Call("query_with_elasticsearch", "http", resp, 1, 0, "success",
                     RetHits(Hits(ix, "*", q)), FALSE))
  ELSE IF resp = "error" THEN
    Eff(ix, tr, Call("query_with_elasticsearch", "http", resp, 1, 0, "failure",
                     RetNone, FALSE))
  ELSE
    \* requests.get raises, or response.json() raises on a 200 it cannot parse
    Eff(ix, tr, Call("query_with_elasticsearch", "http", resp, 1, 0, "none",
                     RetNone, TRUE))

\* A query_with_opensearch that logs its time before every return.
query_with_opensearch_logging_first(cl, ix, tr, q, resp, ms) ==
  IF cl # None /\ resp # "ok" THEN
    Eff(ix, tr, Call("query_with_opensearch", "client", resp, 0, 1, "none", RetNone, TRUE))
  ELSE IF cl = None /\ resp \in {"down", "garbled"} THEN
    Eff(ix, tr, Call("query_with_opensearch", "http", resp, 1, 0, "none", RetNone, TRUE))
  ELSE
    Eff(ix, log_time_records(tr, "query_with_opensearch", ms),
        Call("query_with_opensearch", IF cl # None THEN "client" ELSE "http", resp,
             IF cl # None THEN 0 ELSE 1, IF cl # None THEN 1 ELSE 0,
             IF cl # None THEN "none" ELSE IF resp = "ok" THEN "success" ELSE "failure",
             IF cl = None /\ resp = "ok" THEN RetHits(Hits(ix, "*", q)) ELSE RetNone,
             FALSE))

\* query_with_opensearch(query_string, index_name)
query_with_opensearch_body(cl, ix, tr, q, resp, ms) ==
  IF cl # None THEN
    IF resp # "ok" THEN
      Eff(ix, tr, Call("query_with_opensearch", "client", resp, 0, 1, "none",
                       RetNone, TRUE))
    ELSE
      Eff(ix, log_time_records(tr, "query_with_opensearch", ms),
          Call("query_with_opensearch", "client", resp, 0, 1, "none", RetNone, FALSE))
  ELSE IF resp = "ok" THEN
    \* return hits: the lines that log the time are never reached
    Eff(ix, tr, Call("query_with_opensearch", "http", resp, 1, 0, "success",
                     RetHits(Hits(ix, "*", q)), FALSE))
  ELSE IF resp = "error" THEN
    \* "if response:" is false for a non-success status
    Eff(ix, log_time_records(tr, "query_with_opensearch", ms),
        Call("query_with_opensearch", "http", resp, 1, 0, "failure", RetNone, FALSE))
  ELSE
    Eff(ix, tr, Call("query_with_opensearch", "http", resp, 1, 0, "none", RetNone, TRUE))

query_with_solr(q, resp) ==
  /\ Ready(SEARCH_ENGINE_SL)
  /\ Apply(query_with_solr_body(client, index, time_records, q, resp))

query_with_elasticsearch(q, resp) ==
  /\ Ready(SEARCH_ENGINE_ES)
  /\ Apply(query_with_elasticsearch_body(client, index, time_records, q, resp))

query_with_opensearch(q, resp, ms) ==
  /\ Ready(SEARCH_ENGINE_OS)
  /\ Apply(query_with_opensearch_body(client, index, time_records, q, resp, ms))

\* -------------------------------------------------------------- highlight
\* The fragments a highlight call finds are logged and not returned; what the
\* call does depends on the transport and on how the backend answers.
\* highlight_solr(query_str, field_name)
highlight_solr_body(cl, ix, tr, resp, ms) ==
  IF cl # None THEN
    IF resp # "ok" THEN
      \* solr_client.search(query, **params) is outside any try
      Eff(ix, tr, Call("highlight_solr", "client", resp, 0, 1, "none", RetNone, TRUE))
    ELSE
      Eff(ix, log_time_records(tr, "highlight_solr", ms),
          Call("highlight_solr", "client", resp, 0, 1, "none", RetNone, FALSE))
  ELSE
    \* "hl.method": type reads a local that only the client branch assigns:
    \* UnboundLocalError while the params are built, before any request
    Eff(ix, tr, Call("highlight_solr", "http", resp, 0, 0, "none", RetNone, TRUE))

\* highlight_elasticsearch(url, index_name, query_string, exclude_terms,
\*                         field_name, proximity_distance)
highlight_elasticsearch_body(cl, ix, tr, resp, ms) ==
  IF cl # None THEN
    IF resp # "ok" THEN
      Eff(ix, tr, Call("highlight_elasticsearch", "client", resp, 0, 1, "none",
                       RetNone, TRUE))
    ELSE
      Eff(ix, log_time_records(tr, "highlight_elasticsearch", ms),
          Call("highlight_elasticsearch", "client", resp, 0, 1, "success",
               RetNone, FALSE))
  ELSE IF resp \in {"down", "garbled"} THEN
    \* requests.get raises, or response.json() raises
    Eff(ix, tr, Call("highlight_elasticsearch", "http", resp, 1, 0, "none",
                     RetNone, TRUE))
  ELSE
    Eff(ix, log_time_records(tr, "highlight_elasticsearch", ms),
        Call("highlight_elasticsearch", "http", resp, 1, 0,
             IF resp = "ok" THEN "success" ELSE "failure", RetNone, FALSE))

\* highlight_opensearch(url, index_name, query_str, field_name, proximity_distance)
highlight_opensearch_body(cl, ix, tr, resp, ms) ==
  IF cl # None THEN
    \* os_client.search(...) inside a try that logs
    Eff(ix, log_time_records(tr, "highlight_opensearch", ms),
        Call("highlight_opensearch", "client", resp, 0, 1,
             IF resp = "ok" THEN "success" ELSE "failure", RetNone, FALSE))
  ELSE
    \* logging.info("Running search query using Requests") and nothing else
    Eff(ix, log_time_records(tr, "highlight_opensearch", ms),
        Call("highlight_opensearch", "http", resp, 0, 0, "none", RetNone, FALSE))

highlight_solr(resp, ms) ==
  /\ Ready(SEARCH_ENGINE_SL)
  /\ Apply(highlight_solr_body(client, index, time_records, resp, ms))

highlight_elasticsearch(resp, ms) ==
  /\ Ready(SEARCH_ENGINE_ES)
  /\ Apply(highlight_elasticsearch_body(client, index, time_records, resp, ms))

highlight_opensearch(resp, ms) ==
  /\ Ready(SEARCH_ENGINE_OS)
  /\ Apply(highlight_opensearch_body(client, index, time_records, resp, ms))

\* ----------------------------------------------------------------- delete
\* delete_solr(url): both branches inside a try
delete_solr_body(cl, ix, tr, resp) ==
  IF cl # None THEN
    \* solr_client.delete(q="*:*"); solr_client.commit(); status 0 in the XML
    Eff(IF Served(resp) THEN EmptyIndex ELSE ix, tr,
        Call("delete_solr", "client", resp, 0, IF resp = "ok" THEN 2 ELSE 1,
             IF resp = "ok" THEN "success" ELSE "failure", RetNone, FALSE))
  ELSE IF resp = "down" THEN
    Eff(ix, tr, Call("delete_solr", "http", resp, 1, 0, "failure", RetNone, FALSE))
  ELSE
    \* requests.post(url + "/update/", json={"delete": {"query": "*:*"}})
    Eff(IF Served(resp) THEN EmptyIndex ELSE ix, tr,
        Call("delete_solr", "http", resp, 1, 0,
             IF Served(resp) THEN "success" ELSE "failure",
             IF Served(resp) THEN RetNone ELSE RetCount(0), FALSE))

\* delete_elasticsearch(index_name)
delete_elasticsearch_body(cl, ix, tr, resp) ==
  IF cl # None THEN
    \* es.delete_by_query(...) outside any try; nothing is returned
    IF resp # "ok" THEN
      Eff(IF Served(resp) THEN EmptyIndex ELSE ix, tr,
          Call("delete_elasticsearch", "client", resp, 0, 1, "none", RetNone, TRUE))
    ELSE
      Eff(EmptyIndex, tr,
          Call("delete_elasticsearch", "client", resp, 0, 1,
               IF Total(ix) > 0 THEN "success" ELSE "failure", RetNone, FALSE))
  ELSE IF resp = "ok" THEN
    \* return data.get("deleted", 0)
    Eff(EmptyIndex, tr,
        Call("delete_elasticsearch", "http", resp, 1, 0, "success",
             RetCount(Total(ix)), FALSE))
  ELSE IF resp = "error" THEN
    Eff(ix, tr, Call("delete_elasticsearch", "http", resp, 1, 0, "failure",
                     RetCount(0), FALSE))
  ELSE
    Eff(IF Served(resp) THEN EmptyIndex ELSE ix, tr,
        Call("delete_elasticsearch", "http", resp, 1, 0, "none", RetNone, TRUE))

\* delete_opensearch(url, index_name)
delete_opensearch_body(cl, ix, tr, resp) ==
  IF cl # None THEN
    IF resp # "ok" THEN
      Eff(IF Served(resp) THEN EmptyIndex ELSE ix, tr,
          Call("delete_opensearch", "client", resp, 0, 1, "none", RetNone, TRUE))
    ELSE
      Eff(EmptyIndex, tr,
          Call("delete_opensearch", "client", resp, 0, 1,
               IF Total(ix) > 0 THEN "success" ELSE "failure", RetNone, FALSE))
  ELSE
    \* logging.info("* Deleting using requests - Is not implemented")
    Eff(ix, tr, Call("delete_opensearch", "http", resp, 0, 0, "none", RetNone, FALSE))

delete_solr(resp) ==
  /\ Ready(SEARCH_ENGINE_SL)
  /\ Apply(delete_solr_body(client, index, time_records, resp))

delete_elasticsearch(resp) ==
  /\ Ready(SEARCH_ENGINE_ES)
  /\ Apply(delete_elasticsearch_body(client, index, time_records, resp))

delete_opensearch(resp) ==
  /\ Ready(SEARCH_ENGINE_OS)
  /\ Apply(delete_opensearch_body(client, index, time_records, resp))

\* ---------------------------------------------------------- describe field
\* get_field_information_solr(solr_url, field_name): requests on every call,
\* inside a try; returns the status code on 200 and None otherwise.
get_field_information_solr_body(cl, ix, tr, resp) ==
  Eff(ix, tr, Call("get_field_information_solr", "http", resp, 1, 0,
                   IF resp = "ok" THEN "success" ELSE "failure",
                   IF resp = "ok" THEN RetStatus(200) ELSE RetNone, FALSE))

\* get_field_information_elasticsearch(url, index_name, field_name)
get_field_information_elasticsearch_body(cl, ix, tr, resp) ==
  IF cl # None THEN
    \* es_client.indices.get_mapping(index=index_name) outside any try
    Eff(ix, tr, Call("get_field_information_elasticsearch", "client", resp, 0, 1,
                     IF resp = "ok" THEN "success" ELSE "none", RetNone, resp # "ok"))
  ELSE
    \* logging.info("Get information using Requests") and nothing else
    Eff(ix, tr, Call("get_field_information_elasticsearch", "http", resp, 0, 0,
                     "none", RetNone, FALSE))

get_field_information_solr(resp) ==
  /\ Ready(SEARCH_ENGINE_SL)
  /\ Apply(get_field_information_solr_body(client, index, time_records, resp))

get_field_information_elasticsearch(resp) ==
  /\ Ready(SEARCH_ENGINE_ES)
  /\ Apply(get_field_information_elasticsearch_body(client, index, time_records, resp))

\* ------------------------------------------------------------------ close
\* A close that drops the handle it closed.
close_connections_dropping_client ==
  /\ pc = "ready"
  /\ client # None
  /\ closed < MaxClose
  /\ closed' = closed + 1
  /\ client' = None
  /\ last' = Call("close_connections", "client", "ok", 0, 1, "none", RetNone, FALSE)
  /\ UNCHANGED <<pc, search_engine, hosts, health, index, time_records,
                 centerVars, ingestVars, complex_query, registryVars, bodyVars>>

\* close_connections(): exit_client.close() when there is a client
close_connections ==
  /\ pc = "ready"
  /\ client # None
  /\ closed < MaxClose
  /\ closed' = closed + 1
  /\ last' = Call("close_connections", "client", "ok", 0, 1, "none", RetNone, FALSE)
  /\ UNCHANGED <<pc, search_engine, hosts, client, health, index, time_records,
                 centerVars, ingestVars, complex_query, registryVars, bodyVars>>

\* ------------------------------------------------- get_centered_fragment
\* Strings are sequences of characters.
Strs(n) == UNION {[1..k -> Alphabet] : k \in 0..n}

Max(a, b) == IF a >= b THEN a ELSE b
Min(a, b) == IF a <= b THEN a ELSE b

\* s[start:end] for 0 <= start and end <= len(s)
Slice(s, start, end) == SubSeq(s, start + 1, end)

\* str.find: the lowest index at which sub starts in s, -1 when there is none
RECURSIVE FindFrom(_, _, _)
FindFrom(s, sub, i) ==
  IF i + Len(sub) > Len(s) THEN -1
  ELSE IF Slice(s, i, i + Len(sub)) = sub THEN i
  ELSE FindFrom(s, sub, i + 1)

\* A find that answers 0 where str.find answers -1.
find_absent_as_zero(s, sub) ==
  IF FindFrom(s, sub, 0) = -1 THEN 0 ELSE FindFrom(s, sub, 0)

find(s, sub) == FindFrom(s, sub, 0)

\* The phrase test with < for <=.
size_below_phrase(sz, phrase_length) == sz < phrase_length

\* if size <= phrase_length: return phrase
size_within_phrase(sz, phrase_length) == sz <= phrase_length

\* The content test with > for >=.
size_beyond_content(sz, content_length) == sz > content_length

\* if size >= content_length: return content
size_covers_content(sz, content_length) == sz >= content_length

\* A half window as wide as the whole window.
half_size_whole_window(sz, phrase_length) == sz

\* A half window that forgets the phrase's own length.
half_size_of_window(sz, phrase_length) == sz \div 2

\* half_size = (size - phrase_length) // 2
half_size(sz, phrase_length) == (sz - phrase_length) \div 2

\* get_centered_fragment(content, size, phrase)
get_centered_fragment(c, sz, p) ==
  LET content_length == Len(c)
      phrase_length == Len(p)
  IN IF size_covers_content(sz, content_length) THEN c
     ELSE IF size_within_phrase(sz, phrase_length) THEN p
     ELSE LET half == half_size(sz, phrase_length)
              phrase_index == find(c, p)
          IN IF phrase_index = -1 THEN << >>
             ELSE LET start_index == Max(0, phrase_index - half)
                      end_index == Min(content_length, start_index + sz)
                  IN Slice(c, start_index, end_index)

\* One call of get_centered_fragment on the arguments in content, size, phrase.
CallCentered ==
  /\ cpc = "call"
  /\ fragment' = get_centered_fragment(content, size, phrase)
  /\ cpc' = "done"
  /\ UNCHANGED <<content, size, phrase>>
  /\ UNCHANGED <<pc, search_engine, hosts, client, health, closed, index,
                 time_records, last, ingestVars, complex_query, registryVars, bodyVars>>

\* The caller's loop over the documents of a result (query_with_solr) calls
\* again with the next document's content, the same size and the same phrase.
NextDocument ==
  /\ cpc = "done"
  /\ content' \in Strs(MaxContentLen)
  /\ fragment' = << >>
  /\ cpc' = "call"
  /\ UNCHANGED <<size, phrase>>
  /\ UNCHANGED <<pc, search_engine, hosts, client, health, closed, index,
                 time_records, last, ingestVars, complex_query, registryVars, bodyVars>>

\* -------------------------------------------------------------- ingestion
\* s[lo:hi] with Python's rules for negative and out-of-range bounds.
PyIndex(s, i) == IF i < 0 THEN Max(0, Len(s) + i) ELSE Min(i, Len(s))
PySlice(s, lo, hi) == Slice(s, PyIndex(s, lo), PyIndex(s, hi))

\* An id cut that keeps the extension.
doc_id_with_extension(file_path) == PySlice(file_path, -44, Len(file_path))

\* doc_id = file_path[-44:-4]
doc_id(file_path) == PySlice(file_path, -44, -4)

\* sub in s
Contains(s, sub) == find(s, sub) # -1

\* os.path.join(directory, filename) for a relative filename
join(directory, filename) ==
  IF directory = << >> THEN filename
  ELSE IF directory[Len(directory)] = "/" THEN directory \o filename
  ELSE directory \o <<"/">> \o filename

\* What is on disk under a path: a regular file with its text, a regular file
\* whose open() raises (locked), a directory, or nothing (missing).
Contents == {<<"a">>, <<"b">>}
File(text) == [kind |-> "file", content |-> text]
Other(kind) == [kind |-> kind, content |-> << >>]
FileStates == {File(text) : text \in Contents}
              \cup {Other(kind) : kind \in {"locked", "dir", "missing"}}

\* What a process_file call gave back: the dictionary (present) or None, with
\* the path it was called on and the number of errors it logged.
NoReturn == [called |-> FALSE, path |-> << >>, present |-> FALSE, id |-> << >>,
             content |-> << >>, logged |-> 0]

\* process_file(file_path), f being what is on disk under file_path
process_file_body(file_path, f) ==
  IF f.kind = "file" THEN
    \* body = {"id": doc_id, "content": content}; return body
    [called |-> TRUE, path |-> file_path, present |-> TRUE, id |-> doc_id(file_path),
     content |-> f.content, logged |-> 0]
  ELSE
    \* os.path.isfile is false, or open() raises and the except logs: None
    [called |-> TRUE, path |-> file_path, present |-> FALSE, id |-> << >>,
     content |-> << >>, logged |-> IF f.kind = "locked" THEN 1 ELSE 0]

\* The files of the corpus are named by 40 hexadecimal characters and ".txt",
\* the name of the file of document i repeating the i-th digit.
HexDigits == <<"1", "2", "3", "4", "5", "6", "7", "8", "9", "a", "b", "c", "d", "e", "f">>
Txt == <<".", "t", "x", "t">>
Stem(i) == [k \in 1..(44 - 4) |-> HexDigits[i]]
CorpusFile(i) == Stem(i) \o Txt
PdfFile == <<"b", ".", "p", "d", "f">>
SubDirectory == <<"c">>
DataDirectory == <<"d">>

\* The entry names of the data directory, and the paths process_file is
\* called on by hand: the entries' paths and two short ones.
Names == {CorpusFile(i) : i \in DocIds} \cup {PdfFile, SubDirectory}
Paths == {join(DataDirectory, n) : n \in Names} \cup {<<"a">> \o Txt, <<"t", "x", "t">>}

\* The states of the data directory: what is under a corpus name varies,
\* b.pdf is a file and c a subdirectory.
Listings ==
  {l \in [Names -> FileStates] :
     l[PdfFile] = File(<<"a">>) /\ l[SubDirectory] = Other("dir")}
\* No directory was looked at yet.
EmptyDirectory == << >>

\* os.listdir(files_directory)
listdir(ls) == {n \in DOMAIN ls : ls[n].kind # "missing"}

\* The document of the index that carries an id string.
DocOf(id) == CHOOSE i \in DocIds : Stem(i) = id

\* The files_directory argument: None, or the data directory.
NoDirectory == [present |-> FALSE, path |-> << >>]
Directory(path) == [present |-> TRUE, path |-> path]
DirectoryArgs == {NoDirectory, Directory(DataDirectory)}

\* Per entry of the directory: the number of index_files calls made for it
\* and of errors logged for it; raised: the call raised to its caller.
NoScan == [ran |-> FALSE, raised |-> FALSE, calls |-> << >>, errors |-> << >>]

\* One turn of the loop over os.listdir, on entry filename.
ScanEntry(cl, acc, directory, ls, filename, resp, ms) ==
  LET file_path == join(directory, filename)
  IN IF ~Contains(file_path, Txt) THEN acc
     ELSE LET f == process_file_body(file_path, ls[filename])
              document == IF f.present THEN [present |-> TRUE, id |-> DocOf(f.id)]
                          ELSE NonePayload
              e == index_files_body(cl, acc.index, acc.time_records, document, resp, ms)
          IN [index |-> e.index, time_records |-> e.time_records,
              calls |-> [acc.calls EXCEPT ![filename] = @ + 1],
              errors |-> [acc.errors EXCEPT ![filename] =
                            @ + f.logged + IF e.call.cls = "failure" THEN 1 ELSE 0],
              http |-> acc.http + e.call.http,
              client |-> acc.client + e.call.calls]

\* The loop over the entries S still to visit. The entries have different
\* ids, so the order of the listing does not change what the loop leaves.
RECURSIVE ScanAll(_, _, _, _, _, _, _)
ScanAll(cl, acc, directory, ls, S, resp, ms) ==
  IF S = {} THEN acc
  ELSE LET filename == CHOOSE n \in S : TRUE
       IN ScanAll(cl, ScanEntry(cl, acc, directory, ls, filename, resp, ms),
                  directory, ls, S \ {filename}, resp, ms)

\* process_and_index_files(files_directory)
process_and_index_files_body(cl, ix, tr, dir, ls, resp, ms) ==
  LET start == [index |-> ix, time_records |-> tr, calls |-> [n \in DOMAIN ls |-> 0],
                errors |-> [n \in DOMAIN ls |-> 0], http |-> 0, client |-> 0]
  IN IF ~dir.present THEN
       \* "self.files_directory is not None" reads an attribute nothing
       \* assigns: AttributeError
       start @@ [raised |-> TRUE]
     ELSE ScanAll(cl, start, dir.path, ls, listdir(ls), resp, ms) @@ [raised |-> FALSE]

process_and_index_files(dir, resp, ms) ==
  /\ pc = "ready"
  /\ search_engine = SEARCH_ENGINE_ES => \A i \in DocIds : index[i].auto < MaxAuto
  /\ LET e == process_and_index_files_body(client, index, time_records, dir, entries,
                                           resp, ms)
     IN /\ index' = e.index
        /\ time_records' = e.time_records
        /\ scan' = [ran |-> TRUE, raised |-> e.raised,
                    calls |-> e.calls, errors |-> e.errors]
        /\ last' = Call("process_and_index_files", "none", resp, e.http, e.client,
                        "none", RetNone, e.raised)
  /\ UNCHANGED <<pc, search_engine, hosts, client, health, closed, centerVars,
                 returned, earlier, entries, complex_query, registryVars, bodyVars>>

\* A process_file call made by hand on a path, f being what is on disk there.
process_file(file_path, f) ==
  /\ pc = "ready"
  /\ returned' = process_file_body(file_path, f)
  /\ earlier' = returned
  /\ UNCHANGED <<pc, search_engine, hosts, client, health, closed, index,
                 time_records, last, centerVars, entries, scan, complex_query,
                 registryVars, bodyVars>>

\* ---------------------------------------------------------- logical query
\* The characters of the query strings.
DoubleQuote == "\""
logical_operator_and == <<"A", "N", "D">>
logical_operator_or == <<"O", "R">>

\* The full_string and additional_terms arguments: a phrase, and None or a
\* list of at most MaxTerms terms.
Phrases == {<<"p">>, <<"p", " ", "q">>}
Terms == {<<"a">>, <<"b", " ", "c">>}
NoTerms == [present |-> FALSE, terms |-> << >>]
TermLists == UNION {[1..k -> Terms] : k \in 0..MaxTerms}
TermArgs == {NoTerms} \cup {[present |-> TRUE, terms |-> t] : t \in TermLists}

\* sep.join(items)
RECURSIVE str_join(_, _)
str_join(sep, items) ==
  IF items = << >> THEN << >>
  ELSE IF Len(items) = 1 THEN items[1]
  ELSE items[1] \o sep \o str_join(sep, Tail(items))

\* A query string that opens a group for an empty list of terms as well.
query_string_always_grouped(full_string, terms) ==
  <<DoubleQuote>> \o full_string \o <<DoubleQuote, " ">> \o logical_operator_and
    \o <<" ", "(", DoubleQuote>>
    \o str_join(<<DoubleQuote, " ">> \o logical_operator_or \o <<" ", DoubleQuote>>, terms)
    \o <<DoubleQuote, ")">>

\* The query_string built from full_string and a list of terms.
query_string_of(full_string, terms) ==
  IF Len(terms) > 0 THEN
    \* f'"{full_string}" {logical_operator_and} ("'
    \*   + f'" {logical_operator_or} "'.join(additional_terms) + '")'
    <<DoubleQuote>> \o full_string \o <<DoubleQuote, " ">> \o logical_operator_and
      \o <<" ", "(", DoubleQuote>>
      \o str_join(<<DoubleQuote, " ">> \o logical_operator_or \o <<" ", DoubleQuote>>, terms)
      \o <<DoubleQuote, ")">>
  ELSE
    \* f'"{full_string}"'
    <<DoubleQuote>> \o full_string \o <<DoubleQuote>>

NoComplexQuery == [called |-> FALSE, full_string |-> << >>, additional_terms |-> NoTerms,
                   built |-> FALSE, query_string |-> << >>]

\* complex_query_highlight_solr(full_string, additional_terms): requests on
\* every call, outside any try.
complex_query_highlight_solr_body(cl, ix, tr, additional_terms, resp, ms) ==
  IF ~additional_terms.present THEN
    \* query_string is assigned on no branch: UnboundLocalError at the log line
    Eff(ix, tr, Call("complex_query_highlight_solr", "none", resp, 0, 0, "none",
                     RetNone, TRUE))
  ELSE IF ~HostUrlOk THEN
    Eff(ix, tr, Call("complex_query_highlight_solr", "http", resp, 0, 0, "none",
                     RetNone, TRUE))
  ELSE IF resp # "ok" THEN
    \* requests.get raises, response.json() raises, or data["highlighting"]
    \* is missing from an error answer
    Eff(ix, tr, Call("complex_query_highlight_solr", "http", resp, 1, 0, "none",
                     RetNone, TRUE))
  ELSE
    Eff(ix, log_time_records(tr, "complex_query_highlight_solr", ms),
        Call("complex_query_highlight_solr", "http", resp, 1, 0, "none", RetNone, FALSE))

complex_query_highlight_solr(full_string, additional_terms, resp, ms) ==
  /\ Ready(SEARCH_ENGINE_SL)
  /\ LET e == complex_query_highlight_solr_body(client, index, time_records,
                                                additional_terms, resp, ms)
     IN /\ index' = e.index
        /\ time_records' = e.time_records
        /\ last' = e.call
  /\ complex_query' =
       [called |-> TRUE, full_string |-> full_string,
        additional_terms |-> additional_terms,
        built |-> additional_terms.present,
        query_string |-> IF additional_terms.present
                         THEN query_string_of(full_string, additional_terms.terms)
                         ELSE << >>]
  /\ UNCHANGED <<pc, search_engine, hosts, client, health, closed, centerVars,
                 ingestVars, registryVars, bodyVars>>

\* ------------------------------------------------ highlight query bodies
\* proximity_distance=None, or a number of positions
NoDistance == [present |-> FALSE, d |-> 0]
ProximityArgs == {NoDistance} \cup {[present |-> TRUE, d |-> d] : d \in 0..MaxSlop}
Fields == {"content_br", "content_en"}
\* query_string: one phrase; exclude_terms: None, an empty list, one term, two
HighlightQueries == {<<"p", " ", "q">>}
ExcludeArgs ==
  {NoTerms} \cup
  {[present |-> TRUE, terms |-> t] :
     t \in {<< >>, <<<<"a">>>>, <<<<"a">>, <<"b", " ", "c">>>>}}

\* The "slop" key of a match_phrase clause, or no such key.
NoSlop == [present |-> FALSE, d |-> 0]
Slop(d) == [present |-> TRUE, d |-> d]

\* {"match_phrase": {field: {"query": query, "slop": slop}}}, or no clause
MatchPhrase(field, query, slop) ==
  [present |-> TRUE, field |-> field, query |-> query, slop |-> slop]
NoClause == [present |-> FALSE, field |-> "", query |-> << >>, slop |-> NoSlop]

\* A slop that leaves the distance out.
proximity_ignored(proximity_distance) == 0

\* proximity_distance or 0
proximity_or_zero(proximity_distance) ==
  IF proximity_distance.present /\ proximity_distance.d # 0
  THEN proximity_distance.d ELSE 0

\* A negated clause for every list that is given, the empty one included.
must_not_for_any_list(exclude_terms, field_name, proximity_distance) ==
  IF exclude_terms.present
  THEN MatchPhrase(field_name, str_join(<<" ">>, exclude_terms.terms),
                   Slop(proximity_or_zero(proximity_distance)))
  ELSE NoClause

\* if exclude_terms: query_body["query"]["bool"]["must_not"] = {...}
must_not(exclude_terms, field_name, proximity_distance) ==
  IF exclude_terms.present /\ Len(exclude_terms.terms) > 0
  THEN MatchPhrase(field_name, str_join(<<" ">>, exclude_terms.terms),
                   Slop(proximity_or_zero(proximity_distance)))
  ELSE NoClause

\* query_body of highlight_elasticsearch: the must clause and the must_not one
highlight_elasticsearch_query(query_string, exclude_terms, field_name, proximity_distance) ==
  [must |-> MatchPhrase(field_name, query_string,
                        Slop(proximity_or_zero(proximity_distance))),
   must_not |-> must_not(exclude_terms, field_name, proximity_distance)]

\* query_body["query"] of highlight_opensearch
highlight_opensearch_query(query_str, field_name, proximity_distance) ==
  IF ~proximity_distance.present
  THEN [must |-> MatchPhrase(field_name, query_str, NoSlop), must_not |-> NoClause]
  ELSE [must |-> MatchPhrase(field_name,
                             <<DoubleQuote>> \o query_str \o <<DoubleQuote>>,
                             Slop(proximity_distance.d)),
        must_not |-> NoClause]

\* The last search request a highlight operation handed to its transport.
NoRequest ==
  [made |-> FALSE, op |-> "none", query_string |-> << >>, field_name |-> "",
   exclude_terms |-> NoTerms, proximity_distance |-> NoDistance,
   must |-> NoClause, must_not |-> NoClause]
Request(op, query_string, field_name, exclude_terms, proximity_distance, query_body) ==
  [made |-> TRUE, op |-> op, query_string |-> query_string,
   field_name |-> field_name, exclude_terms |-> exclude_terms,
   proximity_distance |-> proximity_distance,
   must |-> query_body.must, must_not |-> query_body.must_not]

\* The effects of a highlight operation, and its request if one is made.
ApplyRequest(e, req) ==
  /\ index' = e.index
  /\ time_records' = e.time_records
  /\ last' = e.call
  /\ request' = IF e.call.http + e.call.calls > 0 THEN req ELSE request
  /\ UNCHANGED <<pc, search_engine, hosts, client, health, closed, centerVars,
                 ingestVars, complex_query, registryVars, body, sent>>

\* highlight_elasticsearch(url, index_name, query_string, exclude_terms,
\*                         field_name, proximity_distance)
highlight_elasticsearch_request(query_string, exclude_terms, field_name, proximity_distance, resp, ms) ==
  /\ Ready(SEARCH_ENGINE_ES)
  /\ ApplyRequest(highlight_elasticsearch_body(client, index, time_records, resp, ms),
                  Request("highlight_elasticsearch", query_string, field_name,
                          exclude_terms, proximity_distance,
                          highlight_elasticsearch_query(query_string, exclude_terms,
                                                        field_name, proximity_distance)))

\* highlight_opensearch(url, index_name, query_str, field_name, proximity_distance)
highlight_opensearch_request(query_str, field_name, proximity_distance, resp, ms) ==
  /\ Ready(SEARCH_ENGINE_OS)
  /\ ApplyRequest(highlight_opensearch_body(client, index, time_records, resp, ms),
                  Request("highlight_opensearch", query_str, field_name, NoTerms,
                          proximity_distance,
                          highlight_opensearch_query(query_str, field_name,
                                                     proximity_distance)))

\* ------------------------------------------------------------ the facade
FacadeInit ==
  /\ pc = "class"
  /\ search_engine = None
  /\ hosts = "none"
  /\ client = None
  /\ health = "unchecked"
  /\ closed = 0
  /\ index = EmptyIndex
  /\ time_records = << >>
  /\ last = NoCall

CenterIdle ==
  /\ content = << >> /\ size = 0 /\ phrase = << >> /\ fragment = << >>
  /\ cpc = "idle"

IngestIdle ==
  /\ returned = NoReturn /\ earlier = NoReturn
  /\ entries = EmptyDirectory /\ scan = NoScan

QueryIdle == complex_query = NoComplexQuery

RegistryIdle ==
  /\ own_records = [i \in Instances |-> NoOwn]
  /\ pending = [i \in Instances |-> NotRecording]
  /\ last_write = NoWrite
  /\ writer = << >>

BodyIdle == body = NoDocument /\ sent = NothingSent /\ request = NoRequest

Init == FacadeInit /\ CenterIdle /\ IngestIdle /\ QueryIdle /\ RegistryIdle /\ BodyIdle

Next ==
  \/ \E e \in EngineArgs, h \in HostArgs, r \in Responses : Construct(e, h, r)
  \/ \E p \in Documents, r \in Responses : index_with_solr(p, r)
  \/ \E p \in Documents, r \in Responses, ms \in Elapsed : index_with_elasticsearch(p, r, ms)
  \/ \E p \in Documents, r \in Responses : index_with_opensearch(p, r)
  \/ \E p \in Payloads, r \in Responses, ms \in Elapsed : index_files(p, r, ms)
  \/ \E q \in Queries, r \in Responses : query_with_solr(q, r)
  \/ \E q \in Queries, r \in Responses : query_with_elasticsearch(q, r)
  \/ \E q \in Queries, r \in Responses, ms \in Elapsed : query_with_opensearch(q, r, ms)
  \/ \E r \in Responses, ms \in Elapsed : highlight_solr(r, ms)
  \/ \E r \in Responses, ms \in Elapsed : highlight_elasticsearch(r, ms)
  \/ \E r \in Responses, ms \in Elapsed : highlight_opensearch(r, ms)
  \/ \E r \in Responses : delete_solr(r)
  \/ \E r \in Responses : delete_elasticsearch(r)
  \/ \E r \in Responses : delete_opensearch(r)
  \/ \E r \in Responses : get_field_information_solr(r)
  \/ \E r \in Responses : get_field_information_elasticsearch(r)
  \/ close_connections

Spec == Init /\ [][Next]_vars

\* The snippet-centering function on every argument triple within the bounds.
CenterInit ==
  /\ FacadeInit /\ IngestIdle /\ QueryIdle /\ RegistryIdle /\ BodyIdle
  /\ content \in Strs(MaxContentLen)
  /\ size \in 0..MaxSize
  /\ phrase \in Strs(MaxPhraseLen)
  /\ fragment = << >>
  /\ cpc = "call"

CenterNext == CallCentered \/ NextDocument

SpecCenter == CenterInit /\ [][CenterNext]_vars

\* process_file called by hand on any path, over any state of the disk.
FileNext ==
  \/ \E e \in EngineArgs, h \in HostArgs, r \in Responses : Construct(e, h, r)
  \/ \E p \in Paths, f \in FileStates : process_file(p, f)

SpecFile == Init /\ [][FileNext]_vars

\* process_and_index_files over any state of the data directory.
IngestInit ==
  /\ FacadeInit /\ CenterIdle /\ QueryIdle /\ RegistryIdle /\ BodyIdle
  /\ returned = NoReturn /\ earlier = NoReturn
  /\ entries \in Listings /\ scan = NoScan

IngestNext ==
  \/ \E e \in EngineArgs, h \in HostArgs, r \in Responses : Construct(e, h, r)
  \/ \E d \in DirectoryArgs, r \in Responses, ms \in Elapsed :
       process_and_index_files(d, r, ms)

SpecIngest == IngestInit /\ [][IngestNext]_vars

\* complex_query_highlight_solr on a Solr facade, over phrases and term lists.
LogicalNext ==
  \/ \E e \in EngineArgs, h \in HostArgs, r \in Responses : Construct(e, h, r)
  \/ \E p \in Phrases, t \in TermArgs, r \in Responses, ms \in Elapsed :
       complex_query_highlight_solr(p, t, r, ms)

SpecLogical == Init /\ [][LogicalNext]_vars

\* The facade instances of one process recording durations, one thread each.
RegistryNext ==
  \/ \E i \in Instances, n \in RecordedNames, ms \in Elapsed :
       log_time_records_format(i, n, ms)
  \/ \E i \in Instances : log_time_records_store(i)

SpecRegistry == Init /\ [][RegistryNext]_vars

\* index_files on a facade constructed without a search_engine argument.
DefaultNext ==
  \/ \E h \in HostArgs, r \in Responses : Construct(None, h, r)
  \/ \E p \in Payloads, r \in Responses, ms \in Elapsed : index_files(p, r, ms)

SpecDefault == Init /\ [][DefaultNext]_vars

\* One dictionary from process_file handed to index_files, once or again.
DocumentNext ==
  \/ \E e \in EngineArgs, h \in HostArgs, r \in Responses : Construct(e, h, r)
  \/ \E i \in DocIds, t \in Texts : build_document(i, t)
  \/ \E r \in Responses, ms \in Elapsed : index_body(r, ms)

SpecDocument == Init /\ [][DocumentNext]_vars

\* The highlight operations of Elasticsearch and OpenSearch with their arguments.
HighlightNext ==
  \/ \E e \in EngineArgs, h \in HostArgs, r \in Responses : Construct(e, h, r)
  \/ \E q \in HighlightQueries, x \in ExcludeArgs, f \in Fields, d \in ProximityArgs,
        r \in Responses, ms \in Elapsed :
       highlight_elasticsearch_request(q, x, f, d, r, ms)
  \/ \E q \in HighlightQueries, f \in Fields, d \in ProximityArgs,
        r \in Responses, ms \in Elapsed :
       highlight_opensearch_request(q, f, d, r, ms)

SpecHighlight == Init /\ [][HighlightNext]_vars

\* ================================================================ claims
\* The facade claims are read off the record of the most recent call (last)
\* and the facade's fields; the centering claims off a finished call
\* (cpc = "done") of get_centered_fragment.

\* C1: when the facade holds no client handle, every operation that reaches
\* its transport branch hands at least one HTTP request to the backend.
C1_FallbackIssuesRequest ==
  (pc = "ready" /\ client = None /\ last.path = "http") => last.http > 0

\* C2: an index call whose document the backend accepted as newly created
\* never takes the failure branch of its outcome check, on either transport.
C2_CreatedIsSuccess ==
  last.created => last.cls # "failure"

\* C3: in every backend state the facade can be in, query and delete-all of
\* the facade's backend return the same value to the caller on the client
\* branch and on the requests branch, the backend answering ok to both.
C3_SameValueOnBothPaths ==
  pc = "ready" =>
    /\ search_engine = SEARCH_ENGINE_SL =>
         /\ \A q \in Queries :
              query_with_solr_body("Client", index, time_records, q, "ok").call.ret
              = query_with_solr_body(None, index, time_records, q, "ok").call.ret
         /\ delete_solr_body("Client", index, time_records, "ok").call.ret
            = delete_solr_body(None, index, time_records, "ok").call.ret
    /\ search_engine = SEARCH_ENGINE_ES =>
         /\ \A q \in Queries :
              query_with_elasticsearch_body("Client", index, time_records, q, "ok").call.ret
              = query_with_elasticsearch_body(None, index, time_records, q, "ok").call.ret
         /\ delete_elasticsearch_body("Client", index, time_records, "ok").call.ret
            = delete_elasticsearch_body(None, index, time_records, "ok").call.ret
    /\ search_engine = SEARCH_ENGINE_OS =>
         /\ \A q \in Queries, ms \in Elapsed :
              query_with_opensearch_body("Client", index, time_records, q, "ok", ms).call.ret
              = query_with_opensearch_body(None, index, time_records, q, "ok", ms).call.ret
         /\ delete_opensearch_body("Client", index, time_records, "ok").call.ret
            = delete_opensearch_body(None, index, time_records, "ok").call.ret

\* C4: no facade operation raises to its caller, whatever the transport and
\* whatever the backend does.
C4_NoOperationRaises ==
  last.entry \notin {"none", "__init__"} => ~last.raised

\* C5: constructing the facade never raises.
C5_ConstructionNeverRaises ==
  pc # "raised"

\* C6: a facade whose health check failed during construction holds no client
\* handle, and no operation on it takes the client branch.
C6_FailedHealthCheckLeavesNoClient ==
  (pc = "ready" /\ health = "failed") => (client = None /\ last.path # "client")

\* The arguments of the finished call are in the general case of the
\* centering: len(phrase) < size < len(content).
GeneralCase == cpc = "done" /\ Len(phrase) < size /\ size < Len(content)

\* sub starts at index i (from 0) of s.
StartsAt(s, sub, i) ==
  /\ i >= 0 /\ i + Len(sub) <= Len(s)
  /\ \A k \in 1..Len(sub) : s[i + k] = sub[k]

Occurs(s, sub) == \E i \in 0..Len(s) : StartsAt(s, sub, i)

FirstOccurrence(s, sub) ==
  CHOOSE i \in 0..Len(s) :
    StartsAt(s, sub, i) /\ \A j \in 0..(i - 1) : ~StartsAt(s, sub, j)

\* The window [start, end) the centering formula gives.
WindowStart == 
  LET half == (size - Len(phrase)) \div 2
      idx == FirstOccurrence(content, phrase)
  IN IF idx - half > 0 THEN idx - half ELSE 0

WindowEnd ==
  IF WindowStart + size < Len(content) THEN WindowStart + size ELSE Len(content)

\* C7: in the general case with the phrase occurring in the content, the
\* fragment is content[start:end] with idx the first occurrence of the phrase,
\* half = (size - len(phrase)) div 2, start = max(0, idx - half) and
\* end = min(len(content), start + size).
C7_FragmentIsFormulaWindow ==
  (GeneralCase /\ Occurs(content, phrase)) =>
    fragment = [k \in 1..(WindowEnd - WindowStart) |-> content[WindowStart + k]]

\* A finished general-case call whose window starts after the content's first
\* character and is cut by none of the two clamps.
C7_Witness ==
  /\ GeneralCase /\ Occurs(content, phrase)
  /\ WindowStart > 0
  /\ fragment = [k \in 1..size |-> content[WindowStart + k]]

\* C8: in the general case with the phrase occurring in the content, the
\* fragment has exactly size characters.
C8_FragmentHasLengthSize ==
  (GeneralCase /\ Occurs(content, phrase)) => Len(fragment) = size

\* C9 as claimed: whenever the phrase does not occur in the content, the
\* fragment is the empty string.
C9_AbsentPhraseAlwaysEmpty ==
  (cpc = "done" /\ ~Occurs(content, phrase)) => fragment = << >>

\* C9 as amended: in the general case (len(phrase) < size < len(content)), a
\* phrase that does not occur in the content gives the empty string.
C9_AbsentPhraseGivesEmpty ==
  (GeneralCase /\ ~Occurs(content, phrase)) => fragment = << >>

\* A finished general-case call with a phrase the content does not hold.
C9_Witness ==
  GeneralCase /\ ~Occurs(content, phrase) /\ phrase # << >> /\ fragment = << >>

\* C10 as claimed: whenever size <= len(phrase), the fragment is the phrase.
C10_SmallSizeAlwaysPhrase ==
  (cpc = "done" /\ size <= Len(phrase)) => fragment = phrase

\* C10 as amended: when size <= len(phrase) and size < len(content), the
\* fragment is the phrase.
C10_SmallSizeGivesPhrase ==
  (cpc = "done" /\ size <= Len(phrase) /\ size < Len(content)) => fragment = phrase

\* A finished call with size = len(phrase) < len(content) that gave back a
\* phrase the content does not hold.
C10_Witness ==
  /\ cpc = "done" /\ size = Len(phrase) /\ size < Len(content)
  /\ ~Occurs(content, phrase)
  /\ fragment = phrase

\* C11: whenever size >= len(content), the fragment is the content unchanged,
\* whether or not the phrase occurs in the content.
C11_LargeSizeGivesContent ==
  (cpc = "done" /\ size >= Len(content)) => fragment = content

\* A finished call with size = len(content) <= len(phrase) on a content that
\* does not hold the phrase, which gave back the content.
C11_Witness ==
  /\ cpc = "done" /\ size = Len(content) /\ size <= Len(phrase)
  /\ content # << >> /\ ~Occurs(content, phrase)
  /\ fragment = content

\* Number of documents the index holds for document id i.
Stored(i) == (IF index[i].keyed THEN 1 ELSE 0) + index[i].auto

\* C12: whatever index calls were made, on either transport of any backend,
\* the index holds at most one document per document id: indexing an id again
\* overwrites and never adds a second document.
C12_OneDocumentPerId ==
  \A i \in DocIds : Stored(i) <= 1

\* The characters of path p from position -44 up to position -4.
PathId(p) ==
  LET lo == IF Len(p) > 44 THEN Len(p) - 44 ELSE 0
      hi == IF Len(p) > 4 THEN Len(p) - 4 ELSE 0
  IN [k \in 1..(hi - lo) |-> p[lo + k]]

C19_OnlyRegularTxtFilesIndexed ==
  (scan.ran /\ ~scan.raised) =>
    \A n \in Names :
      entries[n].kind # "missing" =>
        IF entries[n].kind \in {"file", "locked"}
           /\ Occurs(DataDirectory \o <<"/">> \o n, Txt)
        THEN scan.calls[n] = 1
        ELSE scan.calls[n] = 0 /\ scan.errors[n] = 0

\* A sequence of terms, each in double quotes, with " OR " between them.
RECURSIVE OrChain(_)
OrChain(terms) ==
  IF Len(terms) = 1 THEN <<"\"">> \o terms[1] \o <<"\"">>
  ELSE OrChain(SubSeq(terms, 1, Len(terms) - 1))
         \o <<" ", "O", "R", " ", "\"">> \o terms[Len(terms)] \o <<"\"">>

\* C14: the query string built from phrase P and the list of terms a1..an is,
\* for n >= 1, "P" AND ("a1" OR .. OR "an") with the terms in list order, and
\* for n = 0 exactly "P".
C14_LogicalQueryString ==
  complex_query.built =>
    LET P == complex_query.full_string
        terms == complex_query.additional_terms.terms
    IN complex_query.query_string =
         IF Len(terms) >= 1
         THEN <<"\"">> \o P \o <<"\"", " ", "A", "N", "D", " ", "(">>
                \o OrChain(terms) \o <<")">>
         ELSE <<"\"">> \o P \o <<"\"">>

\* A call with two different terms that built "p q" AND ("b c" OR "a").
C14_Witness ==
  /\ complex_query.built
  /\ complex_query.full_string = <<"p", " ", "q">>
  /\ complex_query.additional_terms.terms = << <<"b", " ", "c">>, <<"a">> >>
  /\ complex_query.query_string =
       <<"\"", "p", " ", "q", "\"", " ", "A", "N", "D", " ", "(", "\"", "b", " ", "c",
         "\"", " ", "O", "R", " ", "\"", "a", "\"", ")">>

\* The facade's public backend operations.
BackendOperations ==
  {"index_with_solr", "index_with_elasticsearch", "index_with_opensearch",
   "query_with_solr", "query_with_elasticsearch", "query_with_opensearch",
   "highlight_solr", "highlight_elasticsearch", "highlight_opensearch",
   "delete_solr", "delete_elasticsearch", "delete_opensearch",
   "get_field_information_solr", "get_field_information_elasticsearch"}

\* C15: when a delete-all call came back from a backend that answered it, a
\* query that follows it on the same index, answered by the backend, returns
\* no hits.
C15_NoHitsAfterDeleteAll ==
  [][(/\ last.op \in {"delete_solr", "delete_elasticsearch", "delete_opensearch"}
      /\ ~last.raised /\ last.resp = "ok"
      /\ last'.op \in {"query_with_solr", "query_with_elasticsearch",
                        "query_with_opensearch"}
      /\ last'.resp = "ok" /\ last'.ret.kind = "hits")
     => last'.ret.n = 0]_vars

\* C16: after a backend operation of the facade has returned, the timing
\* registry has an entry under the operation's name.
C16_EveryOperationRecorded ==
  (last.entry \in BackendOperations /\ ~last.raised)
    => last.entry \in DOMAIN time_records

\* C17: a store into the registry under a name leaves exactly the names it
\* had and that name, the name's entry being the duration just stored and the
\* entry of every other name what it was.
C17_RecordingReplacesEntry ==
  [][\A i \in Instances :
       (pending[i].busy /\ ~pending'[i].busy) =>
         /\ DOMAIN time_records' = DOMAIN time_records \cup {pending[i].name}
         /\ time_records'[pending[i].name] = pending[i].value
         /\ \A n \in DOMAIN time_records \ {pending[i].name} :
              time_records'[n] = time_records[n]]_vars

\* A store replaced the entry of a name by a different duration while the
\* registry held an entry under another name.
C17_Witness ==
  /\ last_write.stored /\ last_write.replaced
  /\ last_write.old_value # last_write.value
  /\ time_records[last_write.name] = last_write.value
  /\ \E n \in DOMAIN time_records : n # last_write.name

\* C18: every instance reads the same registry, and the entry of the name
\* stored last is, read through any instance, the duration of that store.
C18_RegistrySharedByInstances ==
  /\ \A i, j \in Instances :
       self_time_records(own_records[i], time_records)
       = self_time_records(own_records[j], time_records)
  /\ last_write.stored =>
       \A i \in Instances :
         /\ last_write.name \in DOMAIN self_time_records(own_records[i], time_records)
         /\ self_time_records(own_records[i], time_records)[last_write.name]
            = last_write.value

\* An instance stored a duration under a name another instance had stored a
\* different duration under, while that other instance was inside
\* log_time_records again; the other instance reads the new duration.
C18_Witness ==
  /\ last_write.stored /\ last_write.replaced
  /\ last_write.old_by # 0 /\ last_write.old_by # last_write.by
  /\ last_write.old_value # last_write.value
  /\ pending[last_write.old_by].busy
  /\ self_time_records(own_records[last_write.old_by], time_records)[last_write.name]
     = last_write.value

\* C20: once constructed, no operation of the facade changes search_engine
\* or client.
C20_SelectorAndClientFixed ==
  [][pc = "ready" => (search_engine' = search_engine /\ client' = client)]_vars

\* A facade holding a client after close_connections ran on it.
C20_Witness ==
  /\ pc = "ready" /\ closed > 0
  /\ last.op = "close_connections"
  /\ client = "Client"

\* C28: in the general case with the phrase occurring in the content, the
\* fragment is a stretch of the content that starts at or before the first
\* occurrence of the phrase and ends at or after the end of that occurrence.
C28_FragmentHoldsFirstOccurrence ==
  (GeneralCase /\ Occurs(content, phrase)) =>
    \E s \in 0..FirstOccurrence(content, phrase) :
      /\ s + Len(fragment) <= Len(content)
      /\ \A k \in 1..Len(fragment) : fragment[k] = content[s + k]
      /\ FirstOccurrence(content, phrase) + Len(phrase) <= s + Len(fragment)

\* A finished general-case call whose phrase first occurs past the middle of
\* the content: the fragment starts inside the content and holds the phrase.
C28_Witness ==
  /\ GeneralCase /\ Occurs(content, phrase) /\ phrase # << >>
  /\ FirstOccurrence(content, phrase) >= 2
  /\ WindowStart > 0
  /\ StartsAt(fragment, phrase, FirstOccurrence(content, phrase) - WindowStart)

\* C29: a query_with_opensearch call writes its entry of the timing registry
\* exactly when it returns to its caller without a hit list (the client
\* branch, and the requests branch on a non-200 answer); a call that returns
\* the hits (requests branch, 200) or raises leaves the registry as it was.
C29_RegistryWrittenIffNoHitList ==
  [][(last' # last /\ last'.entry = "query_with_opensearch") =>
       IF ~last'.raised /\ last'.ret.kind # "hits"
       THEN /\ last'.path = "client" \/ (last'.path = "http" /\ last'.resp = "error")
            /\ DOMAIN time_records' = DOMAIN time_records \cup {"query_with_opensearch"}
            /\ \A n \in DOMAIN time_records \ {"query_with_opensearch"} :
                 time_records'[n] = time_records[n]
       ELSE /\ last'.raised \/ (last'.path = "http" /\ last'.resp = "ok")
            /\ time_records' = time_records]_vars

\* A query on the requests branch returned a document as a hit, and the
\* registry has no entry for query_with_opensearch.
C29_Witness ==
  /\ last.entry = "query_with_opensearch" /\ last.path = "http"
  /\ last.ret.kind = "hits" /\ last.ret.n > 0
  /\ "query_with_opensearch" \notin DOMAIN time_records

\* C21: the client handle is closed at most once, and once close_connections
\* was called no operation takes the client branch.
C21_ClosedOnceAndUnusedAfter ==
  /\ closed <= 1
  /\ closed > 0 => (last.op = "close_connections" \/ last.path # "client")

\* C24: an index_files call ran the index operation of the backend the
\* selector names and of no other; under a selector that names none of the
\* three it ran no index operation and made no request to a backend.
C24_DispatchFollowsSelector ==
  last.entry = "index_files" =>
    /\ search_engine = SEARCH_ENGINE_SL => last.op = "index_with_solr"
    /\ search_engine = SEARCH_ENGINE_ES => last.op = "index_with_elasticsearch"
    /\ search_engine = SEARCH_ENGINE_OS => last.op = "index_with_opensearch"
    /\ search_engine \notin {SEARCH_ENGINE_SL, SEARCH_ENGINE_ES, SEARCH_ENGINE_OS} =>
         (last.op = "none" /\ last.http = 0 /\ last.calls = 0 /\ Total(index) = 0)

\* An index_files call on a facade whose selector names no backend.
C24_Witness ==
  /\ pc = "ready" /\ search_engine = "XX"
  /\ last.entry = "index_files" /\ last.op = "none" /\ last.cls = "failure"

\* C27: an index_files call does not raise to its caller, and a call that
\* ended before its transport branch (an absent payload, an unknown selector)
\* leaves the index as it was.
C27_IndexFilesNeverRaises ==
  [][(last' # last /\ last'.entry = "index_files") =>
       /\ ~last'.raised
       /\ last'.path = "none" => index' = index]_vars

\* An index_files call handed None on an Elasticsearch facade: the index
\* operation raised, index_files logged and returned.
C27_Witness ==
  /\ last.entry = "index_files" /\ last.op = "index_with_elasticsearch"
  /\ last.path = "none" /\ last.cls = "failure" /\ ~last.raised

\* C30: a facade constructed without a search_engine argument has the
\* selector ES and no client handle, and every index_files call on it runs
\* index_with_elasticsearch, never on the client branch and, for a document,
\* on the requests branch.
C30_NoSelectorMeansHttpElasticsearch ==
  pc = "ready" =>
    /\ search_engine = SEARCH_ENGINE_ES /\ client = None
    /\ last.entry = "index_files" =>
         /\ last.op = "index_with_elasticsearch"
         /\ last.path \in {"http", "none"} /\ last.calls = 0
         /\ last.path = "http" => last.http = 1

\* A facade constructed without a selector stored a document through a PUT.
C30_Witness ==
  /\ pc = "ready" /\ search_engine = SEARCH_ENGINE_ES /\ client = None
  /\ last.entry = "index_files" /\ last.path = "http" /\ last.http = 1
  /\ \E i \in DocIds : index[i].keyed

\* C22: the dictionary an index operation hands to its backend, on the client
\* branch and on the requests branch of each of the three engines, holds the
\* cleaned text of the content it was given under content_en and under
\* content_br, and None under content.
C22_SentBodyHasBothFieldsAndNullContent ==
  sent.made =>
    /\ sent.before.content.kind = "str"
    /\ sent.body.content_en =
         StrValue(clean_content(search_engine, sent.before.content.text))
    /\ sent.body.content_br = sent.body.content_en
    /\ sent.body.content = NoneValue
    /\ sent.body.id = sent.before.id

\* A body went to the backend through a client handle with a text that the
\* cleaning shortened.
C22_Witness ==
  /\ sent.made /\ last.path = "client" /\ last.calls > 0
  /\ sent.body.content_en.kind = "str"
  /\ Len(sent.body.content_en.text) < Len(sent.before.content.text)

\* C23: a dictionary process_file built is never changed afterwards: after an
\* index operation it has the id and the content it had before.
C23_BuiltBodyNeverChanges ==
  [][body.built => body' = body]_vars

\* Whether a negated or primary clause is a phrase match on the field with
\* the slop d, or an exact phrase match when no distance is given.
PhraseWithDistance(clause, field_name, proximity_distance) ==
  /\ clause.present /\ clause.field = field_name
  /\ IF proximity_distance.present
     THEN clause.slop = Slop(proximity_distance.d)
     ELSE clause.slop \in {NoSlop, Slop(0)}

\* C25: the request of highlight_elasticsearch and of highlight_opensearch is
\* a match_phrase on the field whose slop is the proximity distance when one
\* is given, and which has slop 0 or no slop when none is given.
C25_SlopIsTheProximityDistance ==
  request.made =>
    /\ request.op \in {"highlight_elasticsearch", "highlight_opensearch"}
    /\ PhraseWithDistance(request.must, request.field_name,
                          request.proximity_distance)

\* Both operations made a request: one with a distance above zero, and one
\* without a distance.
C25_Witness ==
  /\ request.made /\ request.op = "highlight_opensearch"
  /\ request.proximity_distance.present /\ request.proximity_distance.d > 0
  /\ request.must.slop = Slop(request.proximity_distance.d)

====
